---- MODULE Spec2Model ----
(***************************************************************************)
(* A model of src/report.py: the weekly reporting script.  One run of the  *)
(* script loads the two uploaded workbooks, rounds their GMV column, and   *)
(* then runs the selected sections analysis(), pricing() and Customers()   *)
(* in that order on the same two DataFrame objects.                        *)
(*                                                                         *)
(* Representation.                                                         *)
(*  - A categorical cell (region, Supplier, ...) is a natural number; its  *)
(*    numeric order stands for the lexicographic order of the strings.     *)
(*    NA (0) is an empty cell, which pandas reads as NaN.                  *)
(*  - A numeric cell is a record [kind, val]: Num(n), NaN, PosInf, NegInf, *)
(*    or Str (text that is not a number).                                  *)
(*  - The GMV cells of an uploaded workbook are in tenths of a euro (so    *)
(*    Num(5) is 0.50); after the load-time rounding the GMV cells of a     *)
(*    DataFrame are whole euros.  Growth percentages are in hundredths of  *)
(*    a percent (two decimals).                                            *)
(*  - A DataFrame is a record [columns, rows]; rows is a sequence of       *)
(*    records.  A Series produced by groupby is a sequence of [key, val]   *)
(*    records in ascending key order; a key is a tuple of cells.           *)
(***************************************************************************)
EXTENDS Integers, Sequences, FiniteSets, TLC

\* ------------------------------------------------------------------ cells

\* An empty categorical cell (read_excel yields NaN for it).
NA == 0

NaN == [kind |-> "nan", val |-> 0]
PosInf == [kind |-> "inf", val |-> 1]
NegInf == [kind |-> "inf", val |-> -1]
Str == [kind |-> "str", val |-> 0]
Num(n) == [kind |-> "num", val |-> n]

Abs(n) == IF n < 0 THEN -n ELSE n

\* Integer floor division for any sign of the numerator (d > 0).
FloorDiv(n, d) == IF n >= 0 THEN n \div d ELSE -((-n + d - 1) \div d)

\* n / d (d > 0) rounded to the nearest integer, halves to the even
\* neighbour: numpy's round (rint), which Series.round uses.
RoundHalfEvenDiv(n, d) ==
    LET q == FloorDiv(n, d)
        r == n - q * d
    IN  IF 2 * r < d THEN q
        ELSE IF 2 * r > d THEN q + 1
        ELSE IF q % 2 = 0 THEN q ELSE q + 1

\* pd.to_numeric(..., errors="coerce") on one cell: text becomes NaN.
ToNumeric(c) == IF c.kind = "str" THEN NaN ELSE c

\* Series.sum() skips NaN: the contribution of one cell to a sum.
SumTerm(c) == IF c.kind = "num" THEN c.val ELSE 0

\* Float subtraction a - b of two cells holding numbers or NaN.
FSub(a, b) ==
    IF a.kind = "nan" \/ b.kind = "nan" THEN NaN
    ELSE IF a.kind = "inf" \/ b.kind = "inf" THEN
        (IF a.kind = "inf" /\ b.kind = "inf"
            THEN (IF a.val = b.val THEN NaN ELSE a)
         ELSE IF a.kind = "inf" THEN a
         ELSE [kind |-> "inf", val |-> -b.val])
    ELSE Num(a.val - b.val)

\* The growth with its operands exchanged: ((last - this) / last * 100).
GrowthPctSwapped(last, this) ==
    IF last.kind # "num" \/ this.kind # "num" THEN NaN
    ELSE IF last.val = 0 THEN
        (IF this.val < 0 THEN PosInf
         ELSE IF this.val > 0 THEN NegInf
         ELSE NaN)
    ELSE IF last.val > 0
        THEN Num(RoundHalfEvenDiv((last.val - this.val) * 10000, last.val))
    ELSE Num(RoundHalfEvenDiv((this.val - last.val) * 10000, -last.val))

\* ((this - last) / last * 100).round(2) on floats, in hundredths of a
\* percent: NaN propagates, x / 0 is +/-inf, 0 / 0 is NaN (numpy does not
\* raise on a float or int64 division by zero).
GrowthPct(last, this) ==
    IF last.kind # "num" \/ this.kind # "num" THEN NaN
    ELSE IF last.val = 0 THEN
        (IF this.val > 0 THEN PosInf
         ELSE IF this.val < 0 THEN NegInf
         ELSE NaN)
    ELSE IF last.val > 0
        THEN Num(RoundHalfEvenDiv((this.val - last.val) * 10000, last.val))
    ELSE Num(RoundHalfEvenDiv((last.val - this.val) * 10000, -last.val))

\* fillna(0) on one cell.
FillNa(c) == IF c.kind = "nan" THEN Num(0) ELSE c

\* ------------------------------------------------------------------- keys

\* Lexicographic order on key tuples of the same length.
RECURSIVE KeyLess(_, _)
KeyLess(a, b) ==
    IF a = <<>> \/ b = <<>> THEN FALSE
    ELSE IF Head(a) < Head(b) THEN TRUE
    ELSE IF Head(a) > Head(b) THEN FALSE
    ELSE KeyLess(Tail(a), Tail(b))

\* The elements of a finite set of keys as an ascending sequence.
RECURSIVE SortKeys(_)
SortKeys(S) ==
    IF S = {} THEN <<>>
    ELSE LET m == CHOOSE x \in S : \A y \in S : y = x \/ KeyLess(x, y)
         IN  <<m>> \o SortKeys(S \ {m})

SeqToSet(s) == {s[i] : i \in 1..Len(s)}

RECURSIVE SumSeq(_)
SumSeq(s) == IF s = <<>> THEN 0 ELSE Head(s) + SumSeq(Tail(s))

\* ------------------------------------------------------ pandas primitives

\* df[df[col] == v]["..."]: the rows whose cell in col equals v.  A
\* comparison with NaN is False, so selecting NA keeps no row.
RowsWhere(rows, col, v) ==
    LET Test(r) == v # NA /\ r[col] = v IN SelectSeq(rows, Test)

\* Series.unique(): the distinct values in order of first appearance,
\* NaN included.
RECURSIVE Unique(_, _)
Unique(rows, col) ==
    IF rows = <<>> THEN <<>>
    ELSE LET init == SubSeq(rows, 1, Len(rows) - 1)
             u == Unique(init, col)
             x == rows[Len(rows)][col]
         IN  IF x \in SeqToSet(u) THEN u ELSE Append(u, x)

\* The key tuple of a row for the grouping fields.
KeyOf(r, fields) == [i \in 1..Len(fields) |-> r[fields[i]]]

HasKey(r, fields) == \A i \in 1..Len(fields) : r[fields[i]] # NA

\* The group keys of df.groupby(fields): groupby's default dropna=True
\* leaves out every row with an empty cell in a grouping field.
GroupKeys(rows, fields) ==
    {KeyOf(rows[i], fields) : i \in {j \in 1..Len(rows) : HasKey(rows[j], fields)}}

GroupRows(rows, fields, k) ==
    LET Test(r) == HasKey(r, fields) /\ KeyOf(r, fields) = k
    IN  SelectSeq(rows, Test)

\* Series.sum(): the sum of the numeric cells of a column (NaN skipped).
ColumnSum(rows, col) == SumSeq([i \in 1..Len(rows) |-> SumTerm(rows[i][col])])

\* Series.nunique(): the number of distinct non-empty cells of a column.
Nunique(rows, col) ==
    Cardinality({rows[i][col] : i \in 1..Len(rows)} \ {NA})

\* GroupBy.first() on one group: the first non-empty cell in row order,
\* NaN when the group has none.
RECURSIVE FirstValue(_, _)
FirstValue(rows, col) ==
    IF rows = <<>> THEN NA
    ELSE IF Head(rows)[col] # NA THEN Head(rows)[col]
    ELSE FirstValue(Tail(rows), col)

\* A Series indexed by group key, in ascending key order (sort=True).
MakeSeries(keys, val) ==
    LET ks == SortKeys(keys)
    IN  [i \in 1..Len(ks) |-> [key |-> ks[i], val |-> val[ks[i]]]]

\* df.groupby(fields)[col].sum()
GroupSum(rows, fields, col) ==
    LET Val(k) == Num(ColumnSum(GroupRows(rows, fields, k), col))
    IN  MakeSeries(GroupKeys(rows, fields),
                   [k \in GroupKeys(rows, fields) |-> Val(k)])

\* df.groupby(fields)[col].nunique()
GroupNunique(rows, fields, col) ==
    LET Val(k) == Num(Nunique(GroupRows(rows, fields, k), col))
    IN  MakeSeries(GroupKeys(rows, fields),
                   [k \in GroupKeys(rows, fields) |-> Val(k)])

\* df.groupby(fields)[col].first()
GroupFirst(rows, fields, col) ==
    LET Val(k) == FirstValue(GroupRows(rows, fields, k), col)
    IN  MakeSeries(GroupKeys(rows, fields),
                   [k \in GroupKeys(rows, fields) |-> Val(k)])

SeriesKeys(s) == [i \in 1..Len(s) |-> s[i].key]

HasIndex(s, k) == \E i \in 1..Len(s) : s[i].key = k

\* The value of a Series at a key of an outer-joined index: NaN when the
\* Series has no such key.
At(s, k) ==
    IF HasIndex(s, k) THEN s[CHOOSE i \in 1..Len(s) : s[i].key = k].val
    ELSE NaN

\* Series.get(k): the value, or None (here NA) when the key is absent.
SeriesGet(s, k) ==
    IF HasIndex(s, k) THEN s[CHOOSE i \in 1..Len(s) : s[i].key = k].val
    ELSE NA

\* The row index of pd.concat([a, b, ...], axis=1): an outer join that is
\* not sorted (sort=False): the keys of the first Series, then the keys
\* new in the second, in their order.
ConcatIndex(a, b) ==
    LET ka == SeriesKeys(a)
        New(k) == k \notin SeqToSet(ka)
    IN  ka \o SelectSeq(SeriesKeys(b), New)

\* The key order of pd.merge(..., how="outer"): the union of the keys,
\* sorted lexicographically.
MergeOuterIndex(a, b) ==
    SortKeys(SeqToSet(SeriesKeys(a)) \cup SeqToSet(SeriesKeys(b)))

\* ------------------------------------------------------------- workbooks

\* The largest number of rows of an uploaded workbook.
MaxRows == 2

\* The columns of an uploaded workbook.
Columns ==
    {"region", "Restaurant_name", "Restaurant_id", "Supplier", "product_name",
     "variant_id", "sub_cat", "Account_email", "cuisine", "GMV", "Weight",
     "unit_price", "total_weight", "Date"}

\* One workbook row.  The restaurant's id, account and cuisine follow the
\* restaurant; the variant and sub-category follow the product.  Date is
\* 10 * day + the order of the transaction within the day.
Row(rg, rn, su, pr, g, w, d) ==
    [region |-> rg, Restaurant_name |-> rn, Restaurant_id |-> rn,
     Supplier |-> su, product_name |-> pr, variant_id |-> pr, sub_cat |-> pr,
     Account_email |-> rn, cuisine |-> rn, GMV |-> g, Weight |-> w,
     unit_price |-> Num(300), total_weight |-> Num(2), Date |-> d]

\* The rows a workbook is drawn from: two regions and an empty region
\* cell, a restaurant that orders in both regions, GMV cells of 0.50, 1.00
\* and 30000.00, an empty GMV cell and a GMV cell holding text, a Weight
\* cell holding text, a Weight of 0 and an empty unit_price cell.
RowUniverse ==
    {Row(1, 1, 1, 1, Num(10), Num(2), 11),
     Row(2, 1, 2, 1, Num(10), Num(2), 12),
     Row(2, 2, 2, 2, Num(300000), Str, 21),
     [Row(NA, 2, 1, 1, Num(10), Num(2), 22) EXCEPT !.unit_price = NaN],
     Row(1, 1, 1, 1, Num(5), Num(0), 13),
     Row(1, 2, 1, 2, NaN, Num(2), 23),
     Row(2, 2, 1, 2, Str, Num(2), 24)}

\* Every sequence of at most n rows.
RECURSIVE SeqsUpTo(_, _)
SeqsUpTo(S, n) ==
    IF n = 0 THEN {<<>>}
    ELSE LET shorter == SeqsUpTo(S, n - 1)
         IN  shorter \cup {Append(s, x) : s \in shorter, x \in S}

Workbooks == SeqsUpTo(RowUniverse, MaxRows)

EmptyFrame == [columns |-> {}, rows |-> <<>>]

\* ------------------------------------------------------------------ state

VARIABLES
    uploaded_file_Last_Week,  \* the rows of the workbook uploaded as last week
    uploaded_file_This_Week,  \* the rows of the workbook uploaded as this week
    df_Last_Week,             \* the DataFrame object passed to every section
    df_This_Week,
    sections,                 \* the sections picked in the sidebar
    pc,                       \* the position of the script
    error,                    \* the exception that ended the run, "" if none
    entry_Last_Week,          \* df_Last_Week as it was when the section now
    entry_This_Week,          \*   running (or last run) was called
    selected,                 \* the selectbox choices of the running section
    tables                    \* the tables the last step displayed, by name

vars ==
    <<uploaded_file_Last_Week, uploaded_file_This_Week, df_Last_Week,
      df_This_Week, sections, pc, error, entry_Last_Week, entry_This_Week,
      selected, tables>>

NoTables == [n \in {} |-> <<>>]
NoSelection == [n \in {} |-> NA]

Init ==
    /\ uploaded_file_Last_Week \in Workbooks
    /\ uploaded_file_This_Week \in Workbooks
    /\ df_Last_Week = EmptyFrame
    /\ df_This_Week = EmptyFrame
    /\ sections = {}
    /\ pc = "start"
    /\ error = ""
    /\ entry_Last_Week = EmptyFrame
    /\ entry_This_Week = EmptyFrame
    /\ selected = NoSelection
    /\ tables = NoTables

\* ------------------------------------------------------------------- load

\* df["GMV"].round(0).astype(int) raises when the column holds text (round
\* on an object column) or an empty cell (NaN cannot be cast to int).
LoadRaises(rows) == \E i \in 1..Len(rows) : rows[i].GMV.kind # "num"

\* One GMV cell after .round(0).astype(int): tenths of a euro rounded to
\* whole euros, halves to the even euro.
RoundCell(c) == Num(RoundHalfEvenDiv(c.val, 10))

\* The column sets a pair of uploaded workbooks may have: the export with
\* every column, and the export without the Date column.
Schemas == {Columns, Columns \ {"Date"}}

\* pd.read_excel followed by the rounding of the GMV column.  A workbook
\* without the Date column has no Date cells.
LoadFrame(rows, columns) ==
    [columns |-> columns,
     rows |-> [i \in 1..Len(rows) |->
                 [rows[i] EXCEPT !.GMV = RoundCell(@),
                                 !.Date = IF "Date" \in columns THEN @ ELSE NA]]]

SectionNames == {"Analysis", "Pricing", "Customers"}

\* Both workbooks load: the script goes on to the section selection.
Load ==
    /\ pc = "start"
    /\ ~LoadRaises(uploaded_file_Last_Week)
    /\ ~LoadRaises(uploaded_file_This_Week)
    /\ \E columns \in Schemas :
          /\ df_Last_Week' = LoadFrame(uploaded_file_Last_Week, columns)
          /\ df_This_Week' = LoadFrame(uploaded_file_This_Week, columns)
    /\ sections' \in SUBSET SectionNames
    /\ pc' = "loaded"
    /\ UNCHANGED <<uploaded_file_Last_Week, uploaded_file_This_Week, error,
                   entry_Last_Week, entry_This_Week, selected, tables>>

\* The rounding of a GMV column raises: the run ends with the exception
\* before any section is reached.
LoadError ==
    /\ pc = "start"
    /\ LoadRaises(uploaded_file_Last_Week) \/ LoadRaises(uploaded_file_This_Week)
    /\ pc' = "error"
    /\ error' = "load"
    /\ UNCHANGED <<uploaded_file_Last_Week, uploaded_file_This_Week,
                   df_Last_Week, df_This_Week, sections, entry_Last_Week,
                   entry_This_Week, selected, tables>>

\* --------------------------------------------------------------- analysis

\* pd.concat([last, this], axis=1) and the Growth (%) column of the
\* comparison tables that divide by the last-week column as it is.
Comparison(last, this) ==
    LET idx == ConcatIndex(last, this)
    IN  [i \in 1..Len(idx) |->
            [key |-> idx[i],
             last |-> At(last, idx[i]),
             this |-> At(this, idx[i]),
             growth |-> GrowthPct(At(last, idx[i]), At(this, idx[i]))]]

\* comparison.fillna(0, inplace=True) on the value columns.
FillTable(t) ==
    [i \in 1..Len(t) |->
        [t[i] EXCEPT !.last = FillNa(@), !.this = FillNa(@), !.growth = FillNa(@)]]

\* The summary table: the GMV growth is a numpy float (inf or NaN on a
\* zero base); the customer growth divides two Python ints.
SummaryData(last, this) ==
    <<[key |-> <<"GMV">>,
       last |-> Num(ColumnSum(last, "GMV")),
       this |-> Num(ColumnSum(this, "GMV")),
       growth |-> GrowthPct(Num(ColumnSum(last, "GMV")), Num(ColumnSum(this, "GMV")))],
      [key |-> <<"Number of Customers">>,
       last |-> Num(Nunique(last, "Restaurant_id")),
       this |-> Num(Nunique(this, "Restaurant_id")),
       growth |-> GrowthPct(Num(Nunique(last, "Restaurant_id")),
                            Num(Nunique(this, "Restaurant_id")))]>>

\* round((this - last) / last * 100, 2) on Python ints raises
\* ZeroDivisionError when no restaurant id occurs in the last-week rows.
SummaryRaises(last) == Nunique(last, "Restaurant_id") = 0

\* region_comparison: four Series side by side, two growth columns, and
\* no fillna.
RegionComparison(last, this) ==
    LET gmv == Comparison(GroupSum(last, <<"region">>, "GMV"),
                          GroupSum(this, <<"region">>, "GMV"))
        cl == GroupNunique(last, <<"region">>, "Restaurant_id")
        ct == GroupNunique(this, <<"region">>, "Restaurant_id")
    IN  [i \in 1..Len(gmv) |->
            [key |-> gmv[i].key, last |-> gmv[i].last, this |-> gmv[i].this,
             growth |-> gmv[i].growth,
             customers_last |-> At(cl, gmv[i].key),
             customers_this |-> At(ct, gmv[i].key),
             customer_growth |-> GrowthPct(At(cl, gmv[i].key), At(ct, gmv[i].key))]]

\* index.map(lambda x: map_last.get(x) or map_this.get(x)): the last-week
\* value when the restaurant has last-week rows (a NaN there is truthy
\* and is kept), else the this-week value.
MapValue(map_last, map_this, k) ==
    IF HasIndex(map_last, k) THEN SeriesGet(map_last, k)
    ELSE SeriesGet(map_this, k)

\* restaurant_gmv_comparison: GMV per restaurant with the restaurant's
\* Account_email and region, then fillna(0).
RestaurantComparison(last, this) ==
    LET t == FillTable(Comparison(GroupSum(last, <<"Restaurant_name">>, "GMV"),
                                  GroupSum(this, <<"Restaurant_name">>, "GMV")))
        el == GroupFirst(last, <<"Restaurant_name">>, "Account_email")
        et == GroupFirst(this, <<"Restaurant_name">>, "Account_email")
        rl == GroupFirst(last, <<"Restaurant_name">>, "region")
        rt == GroupFirst(this, <<"Restaurant_name">>, "region")
    IN  [i \in 1..Len(t) |->
            [key |-> t[i].key, last |-> t[i].last, this |-> t[i].this,
             growth |-> t[i].growth,
             Account_email |-> MapValue(el, et, t[i].key),
             region |-> MapValue(rl, rt, t[i].key)]]

\* A comparison of per-key GMV sums followed by fillna(0): the supplier
\* tables and the regional restaurant and supplier x product tables.
FilledComparison(last, this, fields) ==
    FillTable(Comparison(GroupSum(last, fields, "GMV"), GroupSum(this, fields, "GMV")))

\* A comparison of per-key GMV sums that is displayed without fillna: the
\* sub-category and account tables.
UnfilledComparison(last, this, fields) ==
    Comparison(GroupSum(last, fields, "GMV"), GroupSum(this, fields, "GMV"))

\* GMV_Last_Week.replace(0, float("nan"))
ReplaceZero(c) == IF c.kind = "num" /\ c.val = 0 THEN NaN ELSE c

\* products_gmv_comparison: an outer merge on (Supplier, product_name),
\* fillna(0), Difference, and the growth guarded against a zero base.
ProductsComparison(last, this) ==
    LET pl == GroupSum(last, <<"Supplier", "product_name">>, "GMV")
        pt == GroupSum(this, <<"Supplier", "product_name">>, "GMV")
        idx == MergeOuterIndex(pl, pt)
    IN  [i \in 1..Len(idx) |->
            LET l == FillNa(At(pl, idx[i]))
                t == FillNa(At(pt, idx[i]))
            IN  [key |-> idx[i], last |-> l, this |-> t,
                 Difference |-> FSub(t, l),
                 growth |-> FillNa(GrowthPct(ReplaceZero(l), t))]]

\* cuisine_restaurant_comparison: distinct restaurants per cuisine
\* category, then fillna(0).
CuisineComparison(last, this) ==
    FillTable(Comparison(GroupNunique(last, <<"cuisine">>, "Restaurant_id"),
                         GroupNunique(this, <<"cuisine">>, "Restaurant_id")))

\* df["GMV"] = pd.to_numeric(df["GMV"], errors="coerce"), in place.
CoerceGMV(df) ==
    [df EXCEPT !.rows = [i \in 1..Len(df.rows) |->
                            [df.rows[i] EXCEPT !.GMV = ToNumeric(@)]]]

ColumnValues(rows, col) == {rows[i][col] : i \in 1..Len(rows)}

RowsIn(rows, col, S) == LET Test(r) == r[col] \in S IN SelectSeq(rows, Test)

\* The regional "did not reorder" table: the last-week rows of the region
\* whose Restaurant_name has no this-week row in the region, as the list
\* of restaurant names per account.
NotReorderedByAccount(last_region, this_region) ==
    LET not_reordered == ColumnValues(last_region, "Restaurant_name")
                            \ ColumnValues(this_region, "Restaurant_name")
        kept == RowsIn(last_region, "Restaurant_name", not_reordered)
        Val(k) == LET g == GroupRows(kept, <<"Account_email">>, k)
                  IN  [i \in 1..Len(g) |-> g[i].Restaurant_name]
    IN  MakeSeries(GroupKeys(kept, <<"Account_email">>),
                   [k \in GroupKeys(kept, <<"Account_email">>) |-> Val(k)])

\* The global "did not reorder" summary: the last-week rows whose
\* Restaurant_id has no this-week row, per account: their GMV and the
\* distinct restaurant names.
NotReorderedSummary(last, this) ==
    LET not_reordered == ColumnValues(last, "Restaurant_id")
                            \ ColumnValues(this, "Restaurant_id")
        kept == RowsIn(last, "Restaurant_id", not_reordered)
        Val(k) == LET g == GroupRows(kept, <<"Account_email">>, k)
                  IN  [GMV_Last_Week |-> Num(ColumnSum(g, "GMV")),
                       Restaurants |-> Unique(g, "Restaurant_name")]
    IN  MakeSeries(GroupKeys(kept, <<"Account_email">>),
                   [k \in GroupKeys(kept, <<"Account_email">>) |-> Val(k)])

\* analysis(), lines 15-32: the summary of key metrics.
AnalysisSummary ==
    /\ pc = "loaded"
    /\ "Analysis" \in sections
    /\ entry_Last_Week' = df_Last_Week
    /\ entry_This_Week' = df_This_Week
    /\ IF SummaryRaises(df_Last_Week.rows)
          THEN /\ pc' = "error"
               /\ error' = "ZeroDivisionError"
               /\ tables' = NoTables
          ELSE /\ pc' = "analysis_tables"
               /\ error' = error
               /\ tables' = [summary_data |->
                               SummaryData(df_Last_Week.rows, df_This_Week.rows)]
    /\ UNCHANGED <<uploaded_file_Last_Week, uploaded_file_This_Week,
                   df_Last_Week, df_This_Week, sections, selected>>

\* analysis(), lines 34-161: the region, restaurant, supplier and
\* supplier x product comparisons; the GMV columns are coerced in place
\* before the last one.
AnalysisTables ==
    /\ pc = "analysis_tables"
    /\ df_Last_Week' = CoerceGMV(df_Last_Week)
    /\ df_This_Week' = CoerceGMV(df_This_Week)
    /\ tables' =
          [region_comparison |->
              RegionComparison(df_Last_Week.rows, df_This_Week.rows),
           restaurant_gmv_comparison |->
              RestaurantComparison(df_Last_Week.rows, df_This_Week.rows),
           suppliers_gmv_comparison |->
              FilledComparison(df_Last_Week.rows, df_This_Week.rows, <<"Supplier">>),
           products_gmv_comparison |->
              ProductsComparison(df_Last_Week'.rows, df_This_Week'.rows)]
    /\ pc' = "analysis_region"
    /\ UNCHANGED <<uploaded_file_Last_Week, uploaded_file_This_Week, sections,
                   error, entry_Last_Week, entry_This_Week, selected>>

\* The options of the region selectbox of analysis(): the distinct region
\* cells of the last-week rows, an empty cell (NaN) included.
regions == SeqToSet(Unique(df_Last_Week.rows, "region"))

\* analysis(), lines 165-311: the breakdown of the region picked among
\* df_last_week["region"].unique().  The regional customer growth divides
\* Python ints and raises when the region keeps no last-week row.
AnalysisByRegion ==
    /\ pc = "analysis_region"
    /\ \E selected_region \in regions :
          LET last == RowsWhere(df_Last_Week.rows, "region", selected_region)
              this == RowsWhere(df_This_Week.rows, "region", selected_region)
          IN  /\ selected' = [region |-> selected_region]
              /\ IF SummaryRaises(last)
                    THEN /\ pc' = "error"
                         /\ error' = "ZeroDivisionError"
                         /\ tables' = NoTables
                    ELSE /\ pc' = "analysis_rest"
                         /\ error' = error
                         /\ tables' =
                               [regional_summary_data |-> SummaryData(last, this),
                                restaurant_customer_comparison |->
                                   FilledComparison(last, this, <<"Restaurant_name">>),
                                regional_suppliers_gmv_comparison |->
                                   FilledComparison(last, this, <<"Supplier">>),
                                supplier_product_comparison |->
                                   FilledComparison(last, this,
                                                    <<"Supplier", "product_name">>),
                                subcategory_comparison |->
                                   UnfilledComparison(last, this, <<"sub_cat">>),
                                account_comparison |->
                                   UnfilledComparison(last, this, <<"Account_email">>),
                                restaurants_not_reordered_by_account |->
                                   NotReorderedByAccount(last, this)]
    /\ UNCHANGED <<uploaded_file_Last_Week, uploaded_file_This_Week,
                   df_Last_Week, df_This_Week, sections, entry_Last_Week,
                   entry_This_Week>>

\* analysis(), lines 313-392: the sub-category, cuisine and account
\* comparisons and the restaurants that did not reorder; analysis returns.
AnalysisRest ==
    /\ pc = "analysis_rest"
    /\ tables' =
          [subcat_gmv_comparison |->
              UnfilledComparison(df_Last_Week.rows, df_This_Week.rows, <<"sub_cat">>),
           cuisine_restaurant_comparison |->
              CuisineComparison(df_Last_Week.rows, df_This_Week.rows),
           account_gmv_comparison |->
              UnfilledComparison(df_Last_Week.rows, df_This_Week.rows,
                                 <<"Account_email">>),
           not_reordered_summary |->
              NotReorderedSummary(df_Last_Week.rows, df_This_Week.rows)]
    /\ pc' = "after_analysis"
    /\ UNCHANGED <<uploaded_file_Last_Week, uploaded_file_This_Week,
                   df_Last_Week, df_This_Week, sections, error, entry_Last_Week,
                   entry_This_Week, selected>>

\* "Analysis" is not among the selected sections.
SkipAnalysis ==
    /\ pc = "loaded"
    /\ "Analysis" \notin sections
    /\ pc' = "after_analysis"
    /\ UNCHANGED <<uploaded_file_Last_Week, uploaded_file_This_Week,
                   df_Last_Week, df_This_Week, sections, error, entry_Last_Week,
                   entry_This_Week, selected, tables>>

\* ---------------------------------------------------------------- pricing

\* The three to_numeric(errors="coerce") assignments of pricing(), in
\* place on the caller's DataFrame.
CoercePricing(df) ==
    [df EXCEPT !.rows = [i \in 1..Len(df.rows) |->
        [df.rows[i] EXCEPT !.GMV = ToNumeric(@), !.Weight = ToNumeric(@),
                           !.unit_price = ToNumeric(@)]]]

\* GroupBy.first() on a numeric column of one group: the first cell that
\* is not NaN, NaN when there is none.
RECURSIVE FirstCell(_, _)
FirstCell(rows, col) ==
    IF rows = <<>> THEN NaN
    ELSE IF Head(rows)[col].kind # "nan" THEN Head(rows)[col]
    ELSE FirstCell(Tail(rows), col)

\* ((unit_price / 100) / Weight).replace([inf, -inf], 0).fillna(0).round(2)
\* in hundredths of a euro per unit of weight (unit_price is in cents).
PriceHT(unit_price, weight) ==
    IF unit_price.kind # "num" \/ weight.kind # "num" THEN Num(0)
    ELSE IF weight.val = 0 THEN Num(0)
    ELSE IF weight.val > 0 THEN Num(RoundHalfEvenDiv(unit_price.val, weight.val))
    ELSE Num(RoundHalfEvenDiv(-unit_price.val, -weight.val))

\* The price growth without replace(inf, 0) and fillna(0).
PriceGrowthUnguarded(last, this) == GrowthPct(last, this)

\* ((Difference / Last Week Price HT) * 100).replace(inf, 0).fillna(0).round(2)
PriceGrowth(last, this) ==
    LET g == GrowthPct(last, this)
    IN  IF g.kind = "num" THEN g ELSE Num(0)

PricingKey == <<"Supplier", "product_name", "variant_id">>

\* products_comparison: the first row of each (Supplier, product_name,
\* variant_id) of each week, outer-merged, with the price columns.
ProductsPrices(last, this) ==
    LET keys == GroupKeys(last, PricingKey) \cup GroupKeys(this, PricingKey)
        idx == SortKeys(keys)
        Side(rows, k, col) ==
            IF k \in GroupKeys(rows, PricingKey)
                THEN FirstCell(GroupRows(rows, PricingKey, k), col)
            ELSE NaN
    IN  [i \in 1..Len(idx) |->
            LET pl == PriceHT(Side(last, idx[i], "unit_price"),
                              Side(last, idx[i], "Weight"))
                pt == PriceHT(Side(this, idx[i], "unit_price"),
                              Side(this, idx[i], "Weight"))
            IN  [key |-> idx[i],
                 last_price |-> pl,
                 this_price |-> pt,
                 Difference |-> FSub(pt, pl),
                 Growth |-> PriceGrowth(pl, pt)]]

\* pricing(), lines 398-460: the coercions in place and the price table.
PricingPrices ==
    /\ pc = "after_analysis"
    /\ "Pricing" \in sections
    /\ entry_Last_Week' = df_Last_Week
    /\ entry_This_Week' = df_This_Week
    /\ df_Last_Week' = CoercePricing(df_Last_Week)
    /\ df_This_Week' = CoercePricing(df_This_Week)
    /\ tables' = [final_table2 |->
                    ProductsPrices(df_Last_Week'.rows, df_This_Week'.rows)]
    /\ selected' = NoSelection
    /\ pc' = "pricing_by_date"
    /\ UNCHANGED <<uploaded_file_Last_Week, uploaded_file_This_Week, sections,
                   error>>

\* The rows in ascending Date order (sort_values(by="Date")).
RECURSIVE SortByDate(_)
SortByDate(rows) ==
    IF rows = <<>> THEN <<>>
    ELSE LET i == CHOOSE j \in 1..Len(rows) :
                     \A k \in 1..Len(rows) :
                        \/ rows[j].Date < rows[k].Date
                        \/ (rows[j].Date = rows[k].Date /\ j <= k)
             rest == [k \in 1..(Len(rows) - 1) |->
                        IF k < i THEN rows[k] ELSE rows[k + 1]]
         IN  <<rows[i]>> \o SortByDate(rest)

\* Date.dt.date: the calendar day of a timestamp.
DayOf(d) == d \div 10

\* groupby(Date.dt.date).head(1): the first row of each day.
FirstPerDay(sorted) ==
    LET Keep(i) == \A k \in 1..(i - 1) :
                      DayOf(sorted[k].Date) # DayOf(sorted[i].Date)
        kept == SortKeys({<<i>> : i \in {j \in 1..Len(sorted) : Keep(j)}})
    IN  [n \in 1..Len(kept) |-> sorted[kept[n][1]]]

\* groupby(Date.dt.date).tail(1): of the sorted rows, the last row of each
\* day, in the order of the sorted frame.
LastPerDay(sorted) ==
    LET Keep(i) == \A k \in (i + 1)..Len(sorted) :
                      DayOf(sorted[k].Date) # DayOf(sorted[i].Date)
        kept == SortKeys({<<i>> : i \in {j \in 1..Len(sorted) : Keep(j)}})
    IN  [n \in 1..Len(kept) |-> sorted[kept[n][1]]]

\* last_transaction_per_day with its Price HT and Price HT Change (diff):
\* the first row has no previous row, so its change is NaN.
LastTransactionPerDay(filtered) ==
    LET t == LastPerDay(SortByDate(filtered))
        P(i) == PriceHT(t[i].unit_price, t[i].Weight)
    IN  [i \in 1..Len(t) |->
            [Date |-> t[i].Date,
             Price_HT |-> P(i),
             Price_HT_Change |-> IF i = 1 THEN NaN ELSE FSub(P(i), P(i - 1))]]

\* The rows of a frame matching the three pricing filters.
FilterVariant(rows, su, pr, va) ==
    RowsWhere(RowsWhere(RowsWhere(rows, "Supplier", su), "product_name", pr),
              "variant_id", va)

\* The options of a selectbox: the choice is None (NA) when there are none.
Options(seq) == IF seq = <<>> THEN {NA} ELSE SeqToSet(seq)

\* pricing(), lines 466-536: the supplier, product and variant pickers,
\* the price of the picked variant, and its last price of each day.
\* filtered_df["Date"] raises KeyError when the workbooks have no Date.
PricingByDate ==
    /\ pc = "pricing_by_date"
    /\ LET df_combined == df_Last_Week.rows \o df_This_Week.rows
       IN  \E su \in Options(Unique(df_combined, "Supplier")) :
           \E pr \in Options(Unique(RowsWhere(df_combined, "Supplier", su),
                                     "product_name")) :
           \E va \in Options(Unique(RowsWhere(RowsWhere(df_combined, "Supplier", su),
                                               "product_name", pr), "variant_id")) :
              /\ selected' = [supplier_filter |-> su, product_filter |-> pr,
                              variant_filter |-> va]
              /\ IF "Date" \notin (df_Last_Week.columns \cup df_This_Week.columns)
                    THEN /\ pc' = "error"
                         /\ error' = "KeyError"
                         /\ tables' = NoTables
                    ELSE /\ pc' = "pricing_daily"
                         /\ error' = error
                         /\ tables' =
                               [filtered_table |->
                                   LET Test(r) == r.key = <<su, pr, va>>
                                   IN  SelectSeq(tables.final_table2, Test),
                                last_transaction_per_day |->
                                   LastTransactionPerDay(
                                       FilterVariant(df_combined, su, pr, va))]
    /\ UNCHANGED <<uploaded_file_Last_Week, uploaded_file_This_Week,
                   df_Last_Week, df_This_Week, sections, entry_Last_Week,
                   entry_This_Week>>

\* Sums of a column per value of a derived key (groupby on a computed
\* Series), in ascending key order.
SumBy(rows, keyfn, col) ==
    LET keys == {<<keyfn[rows[i]]>> : i \in 1..Len(rows)}
        Val(k) == LET Test(r) == keyfn[r] = k[1]
                  IN  Num(ColumnSum(SelectSeq(rows, Test), col))
    IN  MakeSeries(keys,
                   [k \in keys |-> Val(k)])

\* st.error(...) of pricing() when df_combined has no Date column.
DateMissingReport == "The Date column is missing from the dataset!"

\* pricing(), lines 538-650: the daily GMV and weight of the picked
\* variant and its GMV by price point; pricing returns.  The Date column
\* is converted on df_combined, a copy made by pd.concat.
PricingDaily ==
    /\ pc = "pricing_daily"
    /\ LET df_combined == df_Last_Week.rows \o df_This_Week.rows
           variant == RowsWhere(df_combined, "variant_id", selected.variant_filter)
           Day(r) == DayOf(r.Date)
           Price(r) == PriceHT(r.unit_price, r.Weight).val
           by_day == [r \in SeqToSet(variant) |-> Day(r)]
           by_price == [r \in SeqToSet(variant) |-> Price(r)]
       IN  tables' =
              IF "Date" \notin (df_Last_Week.columns \cup df_This_Week.columns)
                  THEN [date_missing_report |-> <<DateMissingReport>>]
              ELSE [daily_summary_GMV |-> SumBy(variant, by_day, "GMV"),
                    daily_summary_Total_Weight |-> SumBy(variant, by_day, "total_weight"),
                    gmv_by_price_GMV |-> SumBy(variant, by_price, "GMV"),
                    gmv_by_price_Weight |-> SumBy(variant, by_price, "Weight")]
    /\ pc' = "after_pricing"
    /\ UNCHANGED <<uploaded_file_Last_Week, uploaded_file_This_Week,
                   df_Last_Week, df_This_Week, sections, error, entry_Last_Week,
                   entry_This_Week, selected>>

\* "Pricing" is not among the selected sections.
SkipPricing ==
    /\ pc = "after_analysis"
    /\ "Pricing" \notin sections
    /\ pc' = "after_pricing"
    /\ UNCHANGED <<uploaded_file_Last_Week, uploaded_file_This_Week,
                   df_Last_Week, df_This_Week, sections, error, entry_Last_Week,
                   entry_This_Week, selected, tables>>

\* -------------------------------------------------------------- customers

\* df["Week"] = label, in place on the caller's DataFrame.
AddWeek(df, label) ==
    [columns |-> df.columns \cup {"Week"},
     rows |-> [i \in 1..Len(df.rows) |->
                 [f \in (DOMAIN df.rows[i]) \cup {"Week"} |->
                     IF f = "Week" THEN label ELSE df.rows[i][f]]]]

\* Date.dt.isocalendar().week
WeekOf(d) == (DayOf(d) \div 7) + 1

RowOrders(n) ==
    {p \in [1..n -> 1..n] : \A i, j \in 1..n : p[i] = p[j] => i = j}

\* sort_values(by="GMV", ascending=False) with the default kind,
\* quicksort, which is not stable: every arrangement of the rows with
\* non-increasing GMV is a possible result.
SortValuesDescending(t) ==
    {[i \in 1..Len(t) |-> t[p[i]]] : p \in
        {q \in RowOrders(Len(t)) :
            \A i, j \in 1..Len(t) : i < j => t[q[i]].val.val >= t[q[j]].val.val}}

\* The rows of the region picked in Customers(): every row for
\* "All Regions".
RegionRows(rows, choice) ==
    IF choice.all THEN rows ELSE RowsWhere(rows, "region", choice.region)

\* The options of a region selectbox of Customers(): "All Regions", then
\* the distinct regions.
RegionChoices(rows) ==
    {[all |-> TRUE, region |-> NA]}
        \cup {[all |-> FALSE, region |-> r] : r \in SeqToSet(Unique(rows, "region"))}

\* pivot_table(index=Restaurant_name, columns=week, values="GMV",
\* fill_value=0) of the GMV sums per (week, restaurant).
WeeklyPivot(rows, col) ==
    LET Week(r) == WeekOf(r.Date)
        names == {rows[i][col] : i \in 1..Len(rows)} \ {NA}
        weeks == {Week(rows[i]) : i \in 1..Len(rows)}
        Val(k) == LET Test(r) == r[col] = k[1] /\ Week(r) = k[2]
                  IN  Num(ColumnSum(SelectSeq(rows, Test), "GMV"))
    IN  MakeSeries({<<n, w>> : n \in names, w \in weeks},
                   [k \in {<<n, w>> : n \in names, w \in weeks} |-> Val(k)])

\* groupby(["Week_Number", col])["GMV"].sum() sorted by week ascending and
\* GMV descending; the sort on two columns is a stable lexsort, so equal
\* rows keep the ascending key order of the groupby.
RECURSIVE SortWeekGMV(_)
SortWeekGMV(t) ==
    IF t = <<>> THEN <<>>
    ELSE LET Before(a, b) ==
                 \/ a.key[1] < b.key[1]
                 \/ a.key[1] = b.key[1] /\ a.val.val > b.val.val
             i == CHOOSE j \in 1..Len(t) :
                     /\ \A k \in 1..Len(t) : ~Before(t[k], t[j])
                     /\ \A k \in 1..(j - 1) : Before(t[k], t[j]) \/ Before(t[j], t[k])
             rest == [k \in 1..(Len(t) - 1) |-> IF k < i THEN t[k] ELSE t[k + 1]]
         IN  <<t[i]>> \o SortWeekGMV(rest)

WeeklyData(rows, col) ==
    LET keys == {<<WeekOf(rows[i].Date), rows[i][col]>> :
                    i \in {j \in 1..Len(rows) : rows[j][col] # NA}}
        Val(k) == LET Test(r) == r[col] = k[2] /\ WeekOf(r.Date) = k[1]
                  IN  Num(ColumnSum(SelectSeq(rows, Test), "GMV"))
    IN  SortWeekGMV(MakeSeries(keys,
                   [k \in keys |-> Val(k)]))

\* Customers(), lines 654-737: the Week column is written into both
\* DataFrames, then the weekly orders of the picked region and the
\* supplier tables of the picked customer, sorted by GMV descending.
\* df['Date'] raises KeyError when the workbooks have no Date column.
CustomersCustomer ==
    /\ pc = "after_pricing"
    /\ "Customers" \in sections
    /\ entry_Last_Week' = df_Last_Week
    /\ entry_This_Week' = df_This_Week
    /\ df_Last_Week' = AddWeek(df_Last_Week, "Last Week")
    /\ df_This_Week' = AddWeek(df_This_Week, "This Week")
    /\ IF "Date" \notin (df_Last_Week.columns \cup df_This_Week.columns)
          THEN /\ selected' = NoSelection
               /\ tables' = NoTables
               /\ pc' = "error"
               /\ error' = "KeyError"
          ELSE /\ pc' = "customers_supplier"
               /\ error' = error
               /\ LET df == df_Last_Week'.rows \o df_This_Week'.rows
                  IN  \E selected_region \in RegionChoices(df) :
                      LET filtered_df == RegionRows(df, selected_region)
                      IN  \E selected_customer \in
                                Options(Unique(filtered_df, "Restaurant_name")) :
                          LET customer_data ==
                                  RowsWhere(filtered_df, "Restaurant_name",
                                            selected_customer)
                          IN  /\ selected' = [region |-> selected_region,
                                              customer |-> selected_customer]
                              /\ IF selected_customer = NA
                                    THEN tables' =
                                           [weekly_orders_pivot |->
                                               WeeklyPivot(filtered_df, "Restaurant_name")]
                                    ELSE \E suppliers_gmv \in SortValuesDescending(
                                                GroupSum(customer_data, <<"Supplier">>,
                                                         "GMV")) :
                                         \E suppliers_products_gmv \in
                                               SortValuesDescending(
                                                  GroupSum(customer_data,
                                                           <<"Supplier", "product_name">>,
                                                           "GMV")) :
                                            tables' =
                                               [weekly_orders_pivot |->
                                                   WeeklyPivot(filtered_df,
                                                               "Restaurant_name"),
                                                suppliers_gmv |-> suppliers_gmv,
                                                suppliers_products_gmv |->
                                                   suppliers_products_gmv,
                                                weekly_data |->
                                                   WeeklyData(customer_data, "Supplier")]
    /\ UNCHANGED <<uploaded_file_Last_Week, uploaded_file_This_Week, sections>>

\* Customers(), lines 743-762: the customer tables of the picked supplier,
\* sorted by GMV descending.
CustomersSupplier ==
    /\ pc = "customers_supplier"
    /\ LET df == df_Last_Week.rows \o df_This_Week.rows
       IN  \E selected_supplier \in Options(Unique(df, "Supplier")) :
           LET supplier_data == RowsWhere(df, "Supplier", selected_supplier)
           IN  /\ selected' = [supplier |-> selected_supplier]
               /\ IF selected_supplier = NA
                     THEN tables' = NoTables
                     ELSE \E customers_gmv \in SortValuesDescending(
                                 GroupSum(supplier_data, <<"Restaurant_name">>, "GMV")) :
                          \E customers_products_gmv \in SortValuesDescending(
                                 GroupSum(supplier_data,
                                          <<"Restaurant_name", "product_name">>, "GMV")) :
                             tables' =
                                [customers_gmv |-> customers_gmv,
                                 customers_products_gmv |-> customers_products_gmv]
    /\ pc' = "customers_account_manager"
    /\ UNCHANGED <<uploaded_file_Last_Week, uploaded_file_This_Week,
                   df_Last_Week, df_This_Week, sections, error, entry_Last_Week,
                   entry_This_Week>>

\* Customers(), lines 765-817: the view by account manager.  The regions
\* covered are joined with ', '.join, which raises TypeError on a NaN
\* region.
CustomersAccountManager ==
    /\ pc = "customers_account_manager"
    /\ LET df == df_Last_Week.rows \o df_This_Week.rows
       IN  \E selected_region \in RegionChoices(df) :
           LET filtered_df == RegionRows(df, selected_region)
           IN  \E selected_account_manager \in
                     Options(Unique(filtered_df, "Account_email")) :
               LET account_manager_data ==
                       RowsWhere(filtered_df, "Account_email", selected_account_manager)
               IN  /\ selected' = [region |-> selected_region,
                                   account_manager |-> selected_account_manager]
                   /\ IF account_manager_data = <<>>
                         THEN /\ tables' = NoTables
                              /\ pc' = "customers_weekly"
                              /\ error' = error
                         ELSE IF NA \in ColumnValues(account_manager_data, "region")
                         THEN /\ tables' = NoTables
                              /\ pc' = "error"
                              /\ error' = "TypeError"
                         ELSE /\ \E customer_gmv \in SortValuesDescending(
                                       GroupSum(account_manager_data,
                                                <<"Restaurant_name">>, "GMV")) :
                                 \E product_gmv \in SortValuesDescending(
                                       GroupSum(account_manager_data,
                                                <<"product_name">>, "GMV")) :
                                    tables' = [customer_gmv |-> customer_gmv,
                                               product_gmv |-> product_gmv]
                              /\ pc' = "customers_weekly"
                              /\ error' = error
    /\ UNCHANGED <<uploaded_file_Last_Week, uploaded_file_This_Week,
                   df_Last_Week, df_This_Week, sections, entry_Last_Week,
                   entry_This_Week>>

\* Customers(), lines 819-874: the weekly GMV by account manager and the
\* weekly orders of the customers of the picked manager (NA stands for
\* "All Managers"); Customers returns.
CustomersWeekly ==
    /\ pc = "customers_weekly"
    /\ LET df == df_Last_Week.rows \o df_This_Week.rows
       IN  \E selected_manager \in {NA} \cup SeqToSet(Unique(df, "Account_email")) :
              /\ selected' = [manager |-> selected_manager]
              /\ tables' =
                    IF selected_manager = NA
                        THEN [weekly_gmv_pivot |-> WeeklyPivot(df, "Account_email")]
                    ELSE [weekly_gmv_pivot |-> WeeklyPivot(df, "Account_email"),
                          manager_weekly_orders_pivot |->
                             WeeklyPivot(RowsWhere(df, "Account_email", selected_manager),
                                         "Restaurant_name")]
    /\ pc' = "done"
    /\ UNCHANGED <<uploaded_file_Last_Week, uploaded_file_This_Week,
                   df_Last_Week, df_This_Week, sections, error, entry_Last_Week,
                   entry_This_Week>>

\* "Customers" is not among the selected sections.
SkipCustomers ==
    /\ pc = "after_pricing"
    /\ "Customers" \notin sections
    /\ pc' = "done"
    /\ UNCHANGED <<uploaded_file_Last_Week, uploaded_file_This_Week,
                   df_Last_Week, df_This_Week, sections, error, entry_Last_Week,
                   entry_This_Week, selected, tables>>

\* ---------------------------------------------------------- specification

Next ==
    \/ Load
    \/ LoadError
    \/ AnalysisSummary
    \/ AnalysisTables
    \/ AnalysisByRegion
    \/ AnalysisRest
    \/ SkipAnalysis
    \/ PricingPrices
    \/ PricingByDate
    \/ PricingDaily
    \/ SkipPricing
    \/ CustomersCustomer
    \/ CustomersSupplier
    \/ CustomersAccountManager
    \/ CustomersWeekly
    \/ SkipCustomers

Spec == Init /\ [][Next]_vars

\* ----------------------------------------------------------------- claims

\* The GMV comparison tables of analysis() over the whole datasets, with
\* the grouping fields of each.
GlobalComparisons ==
    [region_comparison |-> <<"region">>,
     restaurant_gmv_comparison |-> <<"Restaurant_name">>,
     suppliers_gmv_comparison |-> <<"Supplier">>,
     products_gmv_comparison |-> <<"Supplier", "product_name">>,
     subcat_gmv_comparison |-> <<"sub_cat">>,
     cuisine_restaurant_comparison |-> <<"cuisine">>,
     account_gmv_comparison |-> <<"Account_email">>]

\* The comparison tables of the regional breakdown.
RegionalComparisons ==
    [restaurant_customer_comparison |-> <<"Restaurant_name">>,
     regional_suppliers_gmv_comparison |-> <<"Supplier">>,
     supplier_product_comparison |-> <<"Supplier", "product_name">>,
     subcategory_comparison |-> <<"sub_cat">>,
     account_comparison |-> <<"Account_email">>]

ShownGlobal == DOMAIN GlobalComparisons \cap DOMAIN tables
ShownRegional == DOMAIN RegionalComparisons \cap DOMAIN tables
ShownSummaries == {"summary_data", "regional_summary_data"} \cap DOMAIN tables

\* The rows a displayed comparison table was computed from.
LastRowsOf(n) ==
    IF n \in DOMAIN GlobalComparisons THEN df_Last_Week.rows
    ELSE RowsWhere(df_Last_Week.rows, "region", selected.region)

ThisRowsOf(n) ==
    IF n \in DOMAIN GlobalComparisons THEN df_This_Week.rows
    ELSE RowsWhere(df_This_Week.rows, "region", selected.region)

FieldsOf(n) ==
    IF n \in DOMAIN GlobalComparisons THEN GlobalComparisons[n]
    ELSE RegionalComparisons[n]

TableKeys(t) == {t[i].key : i \in 1..Len(t)}

\* C1 (as claimed): in every displayed period-comparison table each key of
\* last week's or this week's data appears exactly once, and a key of
\* only one week has the other week's measure equal to 0, never NaN.
C1_OuterJoinComplete ==
    \A n \in ShownGlobal \cup ShownRegional :
        LET t == tables[n]
            kl == GroupKeys(LastRowsOf(n), FieldsOf(n))
            kt == GroupKeys(ThisRowsOf(n), FieldsOf(n))
        IN  /\ \A k \in kl \cup kt :
                  Cardinality({i \in 1..Len(t) : t[i].key = k}) = 1
            /\ \A i \in 1..Len(t) :
                  /\ t[i].key \notin kl => t[i].last = Num(0)
                  /\ t[i].key \notin kt => t[i].this = Num(0)

\* C2 (as claimed): in the summary rows and in every comparison table a
\* row whose last-week measure is 0 or absent has Growth (%) = 0, and no
\* growth value is NaN or infinite.
C2_ZeroBaseGrowthIsZero ==
    \A n \in ShownGlobal \cup ShownRegional \cup ShownSummaries :
        \A i \in 1..Len(tables[n]) :
            LET r == tables[n][i]
            IN  /\ r.growth.kind = "num"
                /\ (r.last = Num(0) \/ r.last = NaN) => r.growth = Num(0)

\* The sum of the numeric cells of a column of a displayed table.
TableSum(t, col) == SumSeq([i \in 1..Len(t) |-> SumTerm(t[i][col])])

\* C3 (as claimed): the per-group GMV sums of a displayed aggregate add up
\* to the GMV of all rows of the same dataset, within 0.5 per group.
C3_SumConservation ==
    \A n \in ShownGlobal \ {"cuisine_restaurant_comparison"} :
        LET t == tables[n]
        IN  /\ 2 * Abs(TableSum(t, "last") - ColumnSum(df_Last_Week.rows, "GMV"))
                  <= Len(t)
            /\ 2 * Abs(TableSum(t, "this") - ColumnSum(df_This_Week.rows, "GMV"))
                  <= Len(t)

AllKeys(rows, fields) == {KeyOf(rows[i], fields) : i \in 1..Len(rows)}

\* C4 (as claimed): the keys of a displayed aggregate are the distinct key
\* tuples of the source rows, rows with an empty key cell included.
C4_GroupCompleteness ==
    \A n \in ShownGlobal :
        TableKeys(tables[n]) =
            AllKeys(df_Last_Week.rows, FieldsOf(n))
                \cup AllKeys(df_This_Week.rows, FieldsOf(n))

Permuted(rows, p) == [i \in 1..Len(rows) |-> rows[p[i]]]

\* C5 (as claimed): permuting the rows of either dataset changes none of
\* the comparison tables, the region and Account_email attached to each
\* restaurant included.
C5_RowOrderIndependent ==
    pc = "analysis_region" =>
        \A p \in RowOrders(Len(df_Last_Week.rows)) :
        \A q \in RowOrders(Len(df_This_Week.rows)) :
            LET last == Permuted(df_Last_Week.rows, p)
                this == Permuted(df_This_Week.rows, q)
            IN  /\ tables.region_comparison = RegionComparison(last, this)
                /\ tables.restaurant_gmv_comparison = RestaurantComparison(last, this)
                /\ tables.suppliers_gmv_comparison =
                      FilledComparison(last, this, <<"Supplier">>)
                /\ tables.products_gmv_comparison = ProductsComparison(last, this)

\* C6 (as claimed): when analysis(), pricing() or Customers() has
\* returned, the two datasets have the columns and cells they had when
\* the section was called.
C6_DatasetsNotMutated ==
    (\/ pc = "after_analysis" /\ "Analysis" \in sections
     \/ pc = "after_pricing" /\ "Pricing" \in sections
     \/ pc = "done" /\ "Customers" \in sections)
        => /\ df_Last_Week = entry_Last_Week
           /\ df_This_Week = entry_This_Week

\* C7 (as claimed): an empty or unparseable GMV cell never fails the
\* run: the load-time rounding does not raise.
C7_BadGMVCellNeverFails ==
    ~(pc = "error" /\ error = "load")

\* The exact sum, in tenths of a euro, of the uploaded GMV cells of the
\* rows of one group.
ExactGroupSum(uploaded, fields, k) ==
    ColumnSum(GroupRows(uploaded, fields, k), "GMV")

\* C8 (as claimed): rounding comes after summation, so a group's reported
\* GMV is within 0.5 of the exact sum of the uploaded values of the group.
C8_RoundAfterSum ==
    "suppliers_gmv_comparison" \in DOMAIN tables =>
        LET t == tables.suppliers_gmv_comparison
        IN  \A i \in 1..Len(t) :
               /\ Abs(10 * t[i].last.val
                        - ExactGroupSum(uploaded_file_Last_Week, <<"Supplier">>, t[i].key))
                     <= 5
               /\ Abs(10 * t[i].this.val
                        - ExactGroupSum(uploaded_file_This_Week, <<"Supplier">>, t[i].key))
                     <= 5

\* The tables Customers() displays sorted by GMV.
SortedTables ==
    {"suppliers_gmv", "suppliers_products_gmv", "customers_gmv",
     "customers_products_gmv", "customer_gmv", "product_gmv"}

\* Descending by a value column, ties by ascending key.
OrderedBy(t, col) ==
    \A i, j \in 1..Len(t) :
        i < j => \/ t[i][col].val > t[j][col].val
                 \/ t[i][col].val = t[j][col].val /\ KeyLess(t[i].key, t[j].key)

\* C9 (as claimed): every sorted table of Customers() is ordered by GMV
\* descending, groups of equal GMV by ascending key.
C9_SortedWithTieBreak ==
    \A n \in SortedTables \cap DOMAIN tables : OrderedBy(tables[n], "val")

\* C10 (as claimed): every comparison table is ordered by This Week GMV
\* descending, ties by ascending key.
C10_ComparisonSortedByThisWeek ==
    \A n \in ShownGlobal \cup ShownRegional :
        LET Known(r) == r.this.kind = "num"
        IN  OrderedBy(SelectSeq(tables[n], Known), "this")

\* The rows of the displayed comparison tables whose two measures are
\* numbers and whose last-week measure is positive.
PositiveBaseRows ==
    {r \in UNION {SeqToSet(tables[n]) : n \in ShownGlobal \cup ShownRegional} :
        r.last.kind = "num" /\ r.this.kind = "num" /\ r.last.val > 0}

\* Equal measures give a Difference of 0 and a Growth (%) of 0.
EqualMeasuresGiveZero(r) ==
    r.this.val = r.last.val =>
        /\ r.growth = Num(0)
        /\ "Difference" \in DOMAIN r => r.Difference = Num(0)

\* C11 (as claimed): in every row of a comparison table with a positive
\* last-week measure, a larger this-week measure gives a Difference > 0
\* and a rounded Growth (%) > 0, and equal measures give 0 for both.
C11_GrowthSignAsClaimed ==
    \A r \in PositiveBaseRows :
        /\ r.this.val > r.last.val =>
              /\ r.growth.kind = "num" /\ r.growth.val > 0
              /\ "Difference" \in DOMAIN r =>
                    r.Difference.kind = "num" /\ r.Difference.val > 0
        /\ EqualMeasuresGiveZero(r)

\* C11 (amended): in every row of a comparison table with a positive
\* last-week measure, a larger this-week measure gives a Difference > 0
\* and a rounded Growth (%) >= 0, which is > 0 when the exact growth is
\* above 0.005 % (the two-decimal rounding shows a smaller growth as
\* 0.00); equal measures give 0 for both.
C11_GrowthSign ==
    \A r \in PositiveBaseRows :
        /\ r.this.val > r.last.val =>
              /\ r.growth.kind = "num" /\ r.growth.val >= 0
              /\ (r.this.val - r.last.val) * 20000 > r.last.val => r.growth.val > 0
              /\ "Difference" \in DOMAIN r =>
                    r.Difference.kind = "num" /\ r.Difference.val > 0
        /\ EqualMeasuresGiveZero(r)

\* C11 witness: a comparison table shows a row whose measure rose from a
\* positive base by so little that the growth is shown as 0.00, and a row
\* of equal positive measures.
C11_GrowthRowsShown ==
    /\ \E r \in PositiveBaseRows : r.this.val > r.last.val /\ r.growth = Num(0)
    /\ \E r \in PositiveBaseRows : r.this.val = r.last.val

\* C12 (as claimed): with a last-week dataset of zero rows analysis()
\* raises no exception, and each comparison table it shows holds only the
\* keys of this week's rows.
C12_EmptyInputsNoError ==
    (uploaded_file_Last_Week = <<>> /\ "Analysis" \in sections)
        => /\ ~(pc = "error" /\ error = "ZeroDivisionError")
           /\ \A n \in ShownGlobal :
                 TableKeys(tables[n]) = GroupKeys(df_This_Week.rows, FieldsOf(n))

\* C13 (as claimed): when the workbooks have no Date column, pricing()
\* does not end with an exception on an access to Date: it goes on to its
\* own report that the Date column is missing.
C13_DateMissingReported ==
    ("Date" \notin df_Last_Week.columns /\ "Pricing" \in sections)
        => /\ ~(pc = "error" /\ error = "KeyError")
           /\ pc \in {"after_pricing", "done"} =>
                 "date_missing_report" \in DOMAIN tables

\* C14 (as claimed): the regions offered for the regional breakdown of
\* analysis() are the distinct region values of the two datasets.
C14_RegionOptionsComplete ==
    pc = "analysis_region" =>
        regions = (ColumnValues(df_Last_Week.rows, "region")
                      \cup ColumnValues(df_This_Week.rows, "region")) \ {NA}

\* The GMV of the rows of one dataset that a row of the daily summary of
\* pricing() covers: the rows of the picked variant on that day.
DailyGMVOf(rows, day) ==
    LET Test(r) == DayOf(r.Date) = day
    IN  ColumnSum(SelectSeq(RowsWhere(rows, "variant_id", selected.variant_filter),
                            Test), "GMV")

\* C15 (as claimed): no table is computed from rows of both periods: the
\* rows of last_transaction_per_day are rows of one dataset, and each GMV
\* of the daily summary is the sum over the rows of one dataset.
C15_PeriodsNotMergedRowWise ==
    /\ "last_transaction_per_day" \in DOMAIN tables =>
          LET t == tables.last_transaction_per_day
              dates == {t[i].Date : i \in 1..Len(t)}
          IN  \/ dates \subseteq ColumnValues(df_Last_Week.rows, "Date")
              \/ dates \subseteq ColumnValues(df_This_Week.rows, "Date")
    /\ "daily_summary_GMV" \in DOMAIN tables =>
          \A i \in 1..Len(tables.daily_summary_GMV) :
             LET e == tables.daily_summary_GMV[i]
             IN  \/ e.val.val = DailyGMVOf(df_Last_Week.rows, e.key[1])
                 \/ e.val.val = DailyGMVOf(df_This_Week.rows, e.key[1])

\* The rows of both datasets that match the three pickers of pricing().
PickedRows ==
    FilterVariant(df_Last_Week.rows \o df_This_Week.rows, selected.supplier_filter,
                  selected.product_filter, selected.variant_filter)

\* C16: last_transaction_per_day has exactly one row for each calendar day
\* of the rows of the picked supplier, product and variant; the row is
\* the one with the greatest Date of its day, with the Price HT of that
\* row; and the rows are in ascending date order.
C16_LastPerDay ==
    "last_transaction_per_day" \in DOMAIN tables =>
        LET t == tables.last_transaction_per_day
            F == PickedRows
        IN  /\ {DayOf(t[i].Date) : i \in 1..Len(t)}
                  = {DayOf(F[j].Date) : j \in 1..Len(F)}
            /\ \A i, j \in 1..Len(t) : i < j => DayOf(t[i].Date) < DayOf(t[j].Date)
            /\ \A i \in 1..Len(t) :
                  /\ \A j \in 1..Len(F) :
                        DayOf(F[j].Date) = DayOf(t[i].Date) => F[j].Date <= t[i].Date
                  /\ \E j \in 1..Len(F) :
                        /\ F[j].Date = t[i].Date
                        /\ t[i].Price_HT = PriceHT(F[j].unit_price, F[j].Weight)

\* C16 witness: the table is shown for picked rows that hold two
\* transactions of one day at different times and a transaction of
\* another day.
C16_TwoOnOneDayShown ==
    /\ "last_transaction_per_day" \in DOMAIN tables
    /\ \E i, j \in 1..Len(PickedRows) :
          /\ i < j
          /\ DayOf(PickedRows[i].Date) = DayOf(PickedRows[j].Date)
          /\ PickedRows[i].Date > PickedRows[j].Date
    /\ \E i, j \in 1..Len(PickedRows) :
          DayOf(PickedRows[i].Date) # DayOf(PickedRows[j].Date)

\* C17 (as claimed): every restaurant of the regional "did not reorder"
\* table has no this-week row anywhere (its Restaurant_id is in the
\* global not-reordered set), and the global summary lists no restaurant
\* that has a this-week row.
C17_NotReorderedAgree ==
    /\ "restaurants_not_reordered_by_account" \in DOMAIN tables =>
          LET t == tables.restaurants_not_reordered_by_account
              global == ColumnValues(df_Last_Week.rows, "Restaurant_id")
                           \ ColumnValues(df_This_Week.rows, "Restaurant_id")
          IN  \A i \in 1..Len(t) : \A name \in SeqToSet(t[i].val) :
                 ColumnValues(RowsWhere(df_Last_Week.rows, "Restaurant_name", name),
                              "Restaurant_id") \subseteq global
    /\ "not_reordered_summary" \in DOMAIN tables =>
          LET t == tables.not_reordered_summary
          IN  \A i \in 1..Len(t) : \A name \in SeqToSet(t[i].val.Restaurants) :
                 name \notin ColumnValues(df_This_Week.rows, "Restaurant_name")

\* The two datasets as a section finds them when it is the only section
\* selected: as loaded from the uploaded workbooks.
AloneLastWeek == LoadFrame(uploaded_file_Last_Week, df_Last_Week.columns \ {"Week"})
AloneThisWeek == LoadFrame(uploaded_file_This_Week, df_This_Week.columns \ {"Week"})

\* The tables of pricing() and of Customers() are those the section
\* computes from the datasets as loaded: the in-place changes of the
\* sections that ran before leave them as they are.
InPlaceChangesHarmless ==
    /\ "final_table2" \in DOMAIN tables =>
          tables.final_table2 =
              ProductsPrices(CoercePricing(AloneLastWeek).rows,
                             CoercePricing(AloneThisWeek).rows)
    /\ "last_transaction_per_day" \in DOMAIN tables =>
          tables.last_transaction_per_day =
              LastTransactionPerDay(
                  FilterVariant(CoercePricing(AloneLastWeek).rows
                                    \o CoercePricing(AloneThisWeek).rows,
                                selected.supplier_filter, selected.product_filter,
                                selected.variant_filter))
    /\ "weekly_orders_pivot" \in DOMAIN tables =>
          tables.weekly_orders_pivot =
              WeeklyPivot(RegionRows(AddWeek(AloneLastWeek, "Last Week").rows
                                         \o AddWeek(AloneThisWeek, "This Week").rows,
                                     selected.region),
                          "Restaurant_name")
    /\ "weekly_gmv_pivot" \in DOMAIN tables =>
          tables.weekly_gmv_pivot =
              WeeklyPivot(AddWeek(AloneLastWeek, "Last Week").rows
                              \o AddWeek(AloneThisWeek, "This Week").rows,
                          "Account_email")

\* C18 (as claimed): whatever sections are selected with it, a selected
\* section shows the tables it shows when selected alone: the in-place
\* changes of earlier sections do not alter its tables, and a run never
\* ends inside analysis() while pricing() or Customers(), which would
\* show their tables when alone, are still to come.
C18_SectionIndependence ==
    /\ InPlaceChangesHarmless
    /\ (pc = "error" /\ error = "ZeroDivisionError") => sections = {"Analysis"}

\* The first Weight and unit_price cells that are not empty among the rows
\* of a (Supplier, product_name, variant_id) in one dataset give no
\* price: no such row, no Weight or a Weight of 0, or no unit_price.
NoPriceInputs(rows, k) ==
    LET g == GroupRows(rows, PricingKey, k)
    IN  \/ FirstCell(g, "Weight") \in {NaN, Num(0)}
        \/ FirstCell(g, "unit_price") = NaN

\* C19: every Price HT, Difference and Growth cell pricing() shows is a
\* finite number; a Price HT is 0 when the product has no Weight, a
\* Weight of 0 or no unit_price in that week, a product absent from the
\* week included; and Growth is 0 when last week's Price HT is 0.
C19_PricesFinite ==
    /\ \A n \in {"final_table2", "filtered_table"} \cap DOMAIN tables :
          \A i \in 1..Len(tables[n]) :
             LET r == tables[n][i]
             IN  /\ r.last_price.kind = "num" /\ r.this_price.kind = "num"
                 /\ r.Difference.kind = "num" /\ r.Growth.kind = "num"
                 /\ n = "final_table2" =>
                       /\ NoPriceInputs(df_Last_Week.rows, r.key) => r.last_price = Num(0)
                       /\ NoPriceInputs(df_This_Week.rows, r.key) => r.this_price = Num(0)
                 /\ r.last_price = Num(0) => r.Growth = Num(0)
    /\ "last_transaction_per_day" \in DOMAIN tables =>
          \A i \in 1..Len(tables.last_transaction_per_day) :
             tables.last_transaction_per_day[i].Price_HT.kind = "num"

\* C19 witness: the price table shows a product that is present in one
\* week only, and a product of both weeks whose last-week Weight is 0 or
\* whose last-week unit_price is missing while it has a price this week.
C19_ZeroPricesShown ==
    /\ "final_table2" \in DOMAIN tables
    /\ \E i \in 1..Len(tables.final_table2) :
          tables.final_table2[i].key \notin GroupKeys(df_Last_Week.rows, PricingKey)
    /\ \E i \in 1..Len(tables.final_table2) :
          LET r == tables.final_table2[i]
          IN  /\ r.key \in GroupKeys(df_Last_Week.rows, PricingKey)
              /\ NoPriceInputs(df_Last_Week.rows, r.key)
              /\ r.this_price.val > 0

====
